---- MODULE Spec2Model ----
(***************************************************************************)
(* The delivery path of the OTLP/HTTP exporter (package otlphttpexporter): *)
(* start, pushTraces / pushMetrics / pushLogs, export and readResponse.    *)
(*                                                                         *)
(* Conventions of the model                                                *)
(*  - Go strings are sequences of one-character strings.                   *)
(*  - A Go int / int64 / time.Duration is a record [neg, mag]: its sign    *)
(*    and its magnitude as little-endian base-256 limbs without high zero  *)
(*    limbs.  Wrap64 gives the value a 64-bit two's-complement register    *)
(*    holds, so that overflow is computed and not assumed away (the build  *)
(*    modelled is a 64-bit one: int is 64 bits wide).                      *)
(*  - A response body is a sequence of protobuf wire fields, each with its *)
(*    size in bytes; reading k bytes of it and decoding them is computed   *)
(*    field by field.                                                      *)
(***************************************************************************)
EXTENDS Integers, Sequences, FiniteSets, TLC

VARIABLES e, calls

vars == <<e, calls>>

(***************************************************************************)
(* Integers with the width of the machine.                                 *)
(***************************************************************************)
LimbBase == 2 ^ 8

Int64Limbs == 64 \div 8

RECURSIVE Norm(_)
Norm(s) ==
  IF s = <<>> THEN <<>>
  ELSE IF s[Len(s)] = 0 THEN Norm(SubSeq(s, 1, Len(s) - 1)) ELSE s

\* s * m + carry, for a limb sequence s and small naturals m, carry
RECURSIVE MulAdd(_, _, _)
MulAdd(s, m, carry) ==
  IF s = <<>>
  THEN IF carry = 0 THEN <<>>
       ELSE <<carry % LimbBase>> \o MulAdd(<<>>, m, carry \div LimbBase)
  ELSE LET t == s[1] * m + carry
       IN  <<t % LimbBase>> \o MulAdd(Tail(s), m, t \div LimbBase)

RECURSIVE AddLimbs(_, _, _)
AddLimbs(a, b, carry) ==
  IF a = <<>> /\ b = <<>>
  THEN IF carry = 0 THEN <<>> ELSE <<carry>>
  ELSE LET x == IF a = <<>> THEN 0 ELSE a[1]
           y == IF b = <<>> THEN 0 ELSE b[1]
           t == x + y + carry
       IN  <<t % LimbBase>>
             \o AddLimbs(IF a = <<>> THEN <<>> ELSE Tail(a),
                         IF b = <<>> THEN <<>> ELSE Tail(b), t \div LimbBase)

RECURSIVE MulLimbs(_, _)
MulLimbs(a, b) ==
  IF b = <<>> THEN <<>>
  ELSE Norm(AddLimbs(MulAdd(a, b[1], 0), <<0>> \o MulLimbs(a, Tail(b)), 0))

RECURSIVE LessFromTop(_, _, _)
LessFromTop(a, b, i) ==
  IF i = 0 THEN FALSE
  ELSE IF a[i] # b[i] THEN a[i] < b[i] ELSE LessFromTop(a, b, i - 1)

\* a < b, for normalised limb sequences
LessLimbs(a, b) ==
  IF Len(a) # Len(b) THEN Len(a) < Len(b) ELSE LessFromTop(a, b, Len(a))

\* 2^63: only the top bit of the top limb of a 64-bit register
TwoTo63 == [i \in 1..Int64Limbs |-> IF i = Int64Limbs THEN LimbBase \div 2 ELSE 0]

MkInt(neg, mag) == [neg |-> neg /\ mag # <<>>, mag |-> mag]

Zero == MkInt(FALSE, <<>>)

\* the low 64 bits of a magnitude, as 8 limbs
Low64(mag) == [i \in 1..Int64Limbs |-> IF i <= Len(mag) THEN mag[i] ELSE 0]

\* (2^64 - u) mod 2^64 of an 8-limb register
Negate64(u) ==
  Low64(AddLimbs([i \in 1..Int64Limbs |-> (LimbBase - 1) - u[i]], <<1>>, 0))

\* the value an int64 register holds after an arithmetic result v is stored
Wrap64(v) ==
  LET low == Low64(v.mag)
      u   == IF v.neg THEN Negate64(low) ELSE low
  IN  IF u[Int64Limbs] >= LimbBase \div 2
      THEN MkInt(TRUE, Norm(Negate64(u)))
      ELSE MkInt(FALSE, Norm(u))

\* Go's a * b on int64 / time.Duration operands
Int64Mul(a, b) == Wrap64(MkInt(a.neg # b.neg, MulLimbs(a.mag, b.mag)))

Digits == <<"0", "1", "2", "3", "4", "5", "6", "7", "8", "9">>

IsDigit(ch) == \E d \in 1..Len(Digits) : Digits[d] = ch

DigitVal(ch) == (CHOOSE d \in 1..Len(Digits) : Digits[d] = ch) - 1

RECURSIVE FromDigits(_, _)
FromDigits(s, acc) ==
  IF s = <<>> THEN acc
  ELSE FromDigits(Tail(s), Norm(MulAdd(acc, 10, DigitVal(s[1]))))

\* time.Second: 10^9 nanoseconds
TimeSecond == MkInt(FALSE, FromDigits(<<"1", "0", "0", "0", "0", "0", "0", "0", "0", "0">>, <<>>))

\* strconv.Atoi on a 64-bit build: an optional sign, then one or more decimal
\* digits, and the value must fit an int; [ok, val]
Atoi(s) ==
  LET signed == s # <<>> /\ s[1] \in {"+", "-"}
      body   == IF signed THEN Tail(s) ELSE s
      neg    == signed /\ s[1] = "-"
      mag    == FromDigits(body, <<>>)
  IN  IF body = <<>> \/ \E i \in 1..Len(body) : ~IsDigit(body[i])
      THEN [ok |-> FALSE, val |-> Zero]
      ELSE IF (neg /\ LessLimbs(TwoTo63, mag)) \/ (~neg /\ ~LessLimbs(mag, TwoTo63))
           THEN [ok |-> FALSE, val |-> Zero]
           ELSE [ok |-> TRUE, val |-> MkInt(neg, mag)]

(***************************************************************************)
(* Errors.  A Go error is a record with a type; consumererror.NewPermanent *)
(* and exporterhelper.NewThrottleRetry wrap an error, fmt.Errorf with %w   *)
(* wraps its operand, fmt.Errorf without %w wraps nothing.                 *)
(***************************************************************************)
NilError == [type |-> "nil"]

\* fmt.Errorf without %w; msg is the formatted text, as a sequence of fragments
Errorf(msg) == [type |-> "fmt", msg |-> msg]

\* fmt.Errorf("...: %w", err)
ErrorfW(msg, err) == [type |-> "fmtw", msg |-> msg, inner |-> err]

NewPermanent(err) == [type |-> "permanent", inner |-> err]

NewThrottleRetry(err, delay) == [type |-> "throttleRetry", inner |-> err, delay |-> delay]

\* errors.As along the wrap chain
RECURSIVE ErrorsAs(_, _)
ErrorsAs(err, type) ==
  \/ err.type = type
  \/ err.type = "fmtw" /\ ErrorsAs(err.inner, type)

\* err.Error(): the message of an error, as a sequence of fragments
RECURSIVE ErrorText(_)
ErrorText(err) ==
  CASE err.type = "nil" -> <<>>
    [] err.type = "fmt" -> err.msg
    [] err.type = "fmtw" -> err.msg \o ErrorText(err.inner)
    [] err.type = "transport" -> <<err.reason>>
    [] err.type = "marshal" -> <<err.reason>>
    [] err.type = "parse" -> <<err.reason>>
    [] OTHER -> ErrorText(err.inner)

\* The outcome a returned error is to the retry engine
Outcome(err) ==
  IF err.type = "nil" THEN [variant |-> "Success", delay |-> Zero]
  ELSE IF ErrorsAs(err, "permanent") THEN [variant |-> "PermanentFailure", delay |-> Zero]
  ELSE IF err.type = "throttleRetry" THEN [variant |-> "ThrottledFailure", delay |-> err.delay]
  ELSE [variant |-> "RetryableFailure", delay |-> Zero]

(***************************************************************************)
(* Responses.                                                              *)
(***************************************************************************)
headerRetryAfter == "Retry-After"

maxHTTPResponseReadBytes == 64 * 1024

StatusTooManyRequests == 429

StatusServiceUnavailable == 503

StatusBadRequest == 400

Min(a, b) == IF a < b THEN a ELSE b

\* one protobuf wire field of a body: what it is, its encoded size, its value
Field(kind, size, val) == [kind |-> kind, size |-> size, val |-> val]

RECURSIVE BodyLen(_)
BodyLen(fields) == IF fields = <<>> THEN 0 ELSE fields[1].size + BodyLen(Tail(fields))

NilStatus == [present |-> FALSE, Code |-> "", Message |-> "", Details |-> <<>>]

ZeroStatus == [present |-> TRUE, Code |-> "", Message |-> "", Details |-> <<>>]

\* proto.Unmarshal of the first n bytes of a body into st: every field must be
\* well-formed and whole; a later scalar replaces an earlier one, a repeated
\* field is appended to, an unknown field is skipped
RECURSIVE Unmarshal(_, _, _)
Unmarshal(fields, n, st) ==
  IF n = 0 THEN [err |-> FALSE, st |-> st]
  ELSE LET f == fields[1]
       IN  IF f.kind = "garbage" \/ f.size > n
           THEN [err |-> TRUE, st |-> st]
           ELSE Unmarshal(Tail(fields), n - f.size,
                  CASE f.kind = "code" -> [st EXCEPT !.Code = f.val]
                    [] f.kind = "message" -> [st EXCEPT !.Message = f.val]
                    [] f.kind = "details" -> [st EXCEPT !.Details = Append(@, f.val)]
                    [] OTHER -> st)

\* resp.Header.Get(headerRetryAfter): the first value, "" when there is none
HeaderGet(header) == IF header = <<>> THEN <<>> ELSE header[1]

\* io.ReadFull into a buffer of want bytes, from a body with left bytes to come
ReadFull(left, want) ==
  [n   |-> Min(want, left),
   err |-> IF want <= left THEN "nil"
           ELSE IF left = 0 THEN "EOF" ELSE "ErrUnexpectedEOF"]

\* io.CopyN(ioutil.Discard, body, limit): the bytes it takes from the body
CopyN(left, limit) == Min(limit, left)

(***************************************************************************)
(* readResponse and the part of export that follows client.Do.             *)
(***************************************************************************)
\* the status codes whose body readResponse reads
InFailureRange(code) == code >= 400 /\ code <= 599

\* MaxRead without the clamp of a declared length to the cap
MaxRead_Unclamped(contentLength) ==
  IF contentLength = -1 THEN maxHTTPResponseReadBytes ELSE contentLength

\* the size of the buffer readResponse reads into
MaxRead(contentLength) ==
  IF contentLength = -1 \/ contentLength > maxHTTPResponseReadBytes
  THEN maxHTTPResponseReadBytes
  ELSE contentLength

\* readResponse leaving the allocated, empty Status in place when Unmarshal fails
readResponse_ZeroOnError(resp) ==
  IF resp.StatusCode >= 400 /\ resp.StatusCode <= 599
  THEN LET r == ReadFull(BodyLen(resp.Body),
                         IF resp.ContentLength = -1
                              \/ resp.ContentLength > maxHTTPResponseReadBytes
                         THEN maxHTTPResponseReadBytes ELSE resp.ContentLength)
       IN  IF r.err = "nil" /\ r.n > 0
           THEN LET u == Unmarshal(resp.Body, r.n, ZeroStatus)
                IN  [respStatus |-> IF u.err THEN ZeroStatus ELSE u.st, n |-> r.n]
           ELSE [respStatus |-> NilStatus, n |-> r.n]
  ELSE [respStatus |-> NilStatus, n |-> 0]

\* readResponse: the decoded status (NilStatus for nil) and the bytes it took
\* from the body
readResponse(resp) ==
  IF InFailureRange(resp.StatusCode)
  THEN LET maxRead == MaxRead(resp.ContentLength)
           r       == ReadFull(BodyLen(resp.Body), maxRead)
       IN  IF r.err = "nil" /\ r.n > 0
           THEN LET u == Unmarshal(resp.Body, r.n, ZeroStatus)
                IN  [respStatus |-> IF u.err THEN NilStatus ELSE u.st, n |-> r.n]
           ELSE [respStatus |-> NilStatus, n |-> r.n]
  ELSE [respStatus |-> NilStatus, n |-> 0]

\* IsSuccess with the upper end of the range left out
IsSuccess_Exclusive(code) == code >= 200 /\ code < 299

IsSuccess(code) == code >= 200 /\ code <= 299

IsThrottle(code) == code = StatusTooManyRequests \/ code = StatusServiceUnavailable

\* IsBadRequest testing for another status code
IsBadRequest_NotFound(code) == code = 404

\* IsBadRequest taking every 4xx code for a malformed request
IsBadRequest_Any4xx(code) == code >= 400 /\ code <= 499

IsBadRequest(code) == code = StatusBadRequest

\* formattedErr
FormatError(url, code, respStatus) ==
  IF respStatus.present
  THEN Errorf(<<"error exporting items, request to ", url,
                " responded with HTTP Status Code ", ToString(code),
                ", Message=", respStatus.Message,
                ", Details=", "[">> \o respStatus.Details \o <<"]">>)
  ELSE Errorf(<<"error exporting items, request to ", url,
                " responded with HTTP Status Code ", ToString(code)>>)

\* retryAfter, the int handed to time.Duration
RetryAfterSeconds(header) ==
  LET val == HeaderGet(header)
  IN  IF val # <<>>
      THEN LET a == Atoi(val) IN IF a.ok THEN a.val ELSE Zero
      ELSE Zero

\* values of a Retry-After header
RetryAfterValues ==
  { <<>>,
    <<"0">>, <<"5">>, <<"1", "2", "0">>, <<"0", "0", "5">>,
    <<"+", "7">>, <<"-", "5">>, <<"-">>,
    <<"5", "s">>, <<"1", ".", "5">>, <<"W", "e", "d">>,
    <<"9", "2", "2", "3", "3", "7", "2", "0", "3", "6">>,
    <<"9", "2", "2", "3", "3", "7", "2", "0", "3", "7">>,
    <<"1", "8", "4", "4", "6", "7", "4", "4", "0", "7", "4">>,
    <<"9", "2", "2", "3", "3", "7", "2", "0", "3", "6",
      "8", "5", "4", "7", "7", "5", "8", "0", "7">>,
    <<"9", "2", "2", "3", "3", "7", "2", "0", "3", "6",
      "8", "5", "4", "7", "7", "5", "8", "0", "8">>,
    <<"-", "9", "2", "2", "3", "3", "7", "2", "0", "3", "6",
      "8", "5", "4", "7", "7", "5", "8", "0", "8">> }

\* the Retry-After entry of resp.Header: no value, or one value
Headers == {<<>>} \cup {<<v>> : v \in RetryAfterValues}

\* time.Duration(retryAfter) * time.Second
RetryDelay(header) == Int64Mul(RetryAfterSeconds(header), TimeSecond)

\* RetryDelay, computed once for each header
RetryDelayOf == [h \in Headers |-> RetryDelay(h)]

\* the error export returns for a response outside 200..299
ClassifyFailure(formattedErr, resp) ==
  IF IsThrottle(resp.StatusCode)
  THEN NewThrottleRetry(formattedErr, RetryDelayOf[resp.Header])
  ELSE IF IsBadRequest(resp.StatusCode)
       THEN NewPermanent(formattedErr)
       ELSE formattedErr

\* TransportFailure wrapping the error as permanent
TransportFailure_Permanent(err) ==
  NewPermanent(ErrorfW(<<"failed to make an HTTP request: ">>, err))

\* the error export returns when client.Do fails
TransportFailure(err) == ErrorfW(<<"failed to make an HTTP request: ">>, err)

\* MarshalFailure returning the error as it is
MarshalFailure_Unwrapped(err) == err

\* the error a push returns when MarshalProto fails
MarshalFailure(err) == NewPermanent(err)

\* the deferred function of export: the bytes it drains, the Close calls it makes
DeferredDrain(left) == CopyN(left, maxHTTPResponseReadBytes)

(***************************************************************************)
(* The inputs: exporters, batches, transport errors and responses.         *)
(***************************************************************************)
Signals == {"traces", "metrics", "logs"}

MalformedURL == "http://[::1/v1/logs"

\* url.Parse inside http.NewRequestWithContext
URLParses(url) == url # MalformedURL

\* the exporter as newExporter and the factory leave it: no client yet
NewExporter(logsURL) ==
  [client     |-> "nil",
   tracesURL  |-> "http://collector:4318/v1/traces",
   metricsURL |-> "http://collector:4318/v1/metrics",
   logsURL    |-> logsURL,
   userAgent  |-> "otelcol/1.0 (linux/amd64)",
   config     |-> "cfg"]

Exporters == {NewExporter(u) : u \in {"http://collector:4318/v1/logs", MalformedURL}}

\* a batch of one signal kind; encodable tells whether MarshalProto succeeds
Batches(signal) == {[signal |-> signal, encodable |-> b] : b \in BOOLEAN}

MarshalProto(batch) ==
  IF batch.encodable
  THEN [err |-> NilError, bytes |-> <<"request", batch.signal>>]
  ELSE [err |-> [type |-> "marshal", reason |-> "cannot marshal"], bytes |-> <<>>]

TransportErrors ==
  {[type |-> "transport", reason |-> r] :
     r \in {"connection refused", "no such host",
            "context deadline exceeded", "context canceled"}}

StatusCodes ==
  {100, 199, 200, 204, 299, 300, 399, 400, 401, 404, 429, 499,
   500, 502, 503, 504, 599, 600}

Cap == maxHTTPResponseReadBytes

\* the longest body, in multiples of the cap (and one byte more)
BodyCaps == 2

Bodies ==
  { <<>>,
    <<Field("message", 12, "overloaded")>>,
    <<Field("code", 2, "14"), Field("message", 12, "overloaded"),
      Field("details", 20, "d1"), Field("details", 20, "d2")>>,
    <<Field("message", 2, "")>>,
    <<Field("unknown", 3, "x")>>,
    <<Field("garbage", 5, "x")>>,
    <<Field("message", 12, "overloaded"), Field("garbage", 3, "x")>>,
    <<Field("message", Cap, "big")>>,
    <<Field("message", Cap + 1, "big")>>,
    <<Field("message", Cap, "big"), Field("details", 20, "d1")>>,
    <<Field("message", Cap, "big"), Field("garbage", 1, "x")>>,
    <<Field("message", Cap, "big"), Field("message", Cap, "late"),
      Field("details", 20, "d1")>>,
    <<Field("garbage", BodyCaps * Cap + 1, "x")>> }

\* how many bytes more than it sends a server may declare
ShortBy == 7

\* the Content-Length of a response whose body delivers n bytes: unknown, exact,
\* or more than the server goes on to send
DeclaredLengths(n) == {-1, n, n + ShortBy}

NoResponse ==
  [got |-> FALSE, StatusCode |-> 0, Header |-> <<>>, ContentLength |-> 0, Body |-> <<>>]

Responses ==
  UNION { { [got |-> TRUE, StatusCode |-> code, Header |-> h,
             ContentLength |-> cl, Body |-> b] :
              code \in StatusCodes, h \in Headers, cl \in DeclaredLengths(BodyLen(b)) } :
          b \in Bodies }

(***************************************************************************)
(* The state: the exporter e, and one record per push call.                *)
(***************************************************************************)
NoRequest ==
  [made |-> FALSE, method |-> "", url |-> "", body |-> <<>>,
   contentType |-> "", userAgent |-> ""]

NoBatch == [signal |-> "", encodable |-> TRUE]

\* pc: where the call is; batch: the batch pushed; req: the request built;
\* sent: the requests handed to client.Do; doErr, resp: what client.Do returned;
\* decoded: readResponse was called; respStatus: what it returned; read, drained:
\* the body bytes taken by readResponse and by the deferred CopyN; closes: the
\* calls of resp.Body.Close; ret: the error returned
IdleCall ==
  [pc         |-> "idle",
   batch      |-> NoBatch,
   req        |-> NoRequest,
   sent       |-> 0,
   doErr      |-> NilError,
   resp       |-> NoResponse,
   decoded    |-> FALSE,
   respStatus |-> NilStatus,
   read       |-> 0,
   drained    |-> 0,
   closes     |-> 0,
   ret        |-> NilError]

Init ==
  /\ e \in Exporters
  /\ calls = <<IdleCall>>

Returned(call, err) == [call EXCEPT !.pc = "done", !.ret = err]

\* export up to client.Do: the request is built, and handed to the client; a nil
\* client (start has not set e.client) is dereferenced there, and the call panics
exportBegin(call, url, request) ==
  IF ~URLParses(url)
  THEN Returned(call, NewPermanent([type |-> "parse", reason |-> "parse error"]))
  ELSE LET req == [made |-> TRUE, method |-> "POST", url |-> url, body |-> request,
                   contentType |-> "application/x-protobuf",
                   userAgent |-> e.userAgent]
       IN  IF e.client = "nil"
           THEN [call EXCEPT !.pc = "panicked", !.req = req]
           ELSE [call EXCEPT !.pc = "inflight", !.req = req, !.sent = @ + 1]

\* the body shared by pushTraces, pushMetrics and pushLogs.  The debug rendering
\* of the batch (logger at debug level) writes to the log only and is left out.
push(call, url, batch) ==
  LET m == MarshalProto(batch)
      started == [call EXCEPT !.batch = batch]
  IN  IF m.err # NilError
      THEN Returned(started, MarshalFailure(m.err))
      ELSE exportBegin(started, url, m.bytes)

\* afterResponse with the response kept in one place shared by the calls (here
\* the first call's) instead of in a local of the call
afterResponse_SharedResponse(call) ==
  LET resp == calls[1].resp
  IN  IF resp.StatusCode >= 200 /\ resp.StatusCode <= 299
      THEN [call EXCEPT !.pc = "returning", !.ret = NilError]
      ELSE LET rr == readResponse(resp)
               formattedErr == FormatError(call.req.url, resp.StatusCode, rr.respStatus)
           IN  [call EXCEPT !.pc = "returning", !.decoded = TRUE,
                            !.respStatus = rr.respStatus, !.read = rr.n,
                            !.ret = ClassifyFailure(formattedErr, resp)]

\* export from the test of the status code to its return statement
afterResponse(call) ==
  IF IsSuccess(call.resp.StatusCode)
  THEN [call EXCEPT !.pc = "returning", !.ret = NilError]
  ELSE LET rr == readResponse(call.resp)
           formattedErr == FormatError(call.req.url, call.resp.StatusCode, rr.respStatus)
       IN  [call EXCEPT !.pc = "returning", !.decoded = TRUE,
                        !.respStatus = rr.respStatus, !.read = rr.n,
                        !.ret = ClassifyFailure(formattedErr, call.resp)]

\* afterDeferred with the defer statement placed after the return for 200..299
afterDeferred_AfterSuccessReturn(call) ==
  IF call.resp.StatusCode >= 200 /\ call.resp.StatusCode <= 299
  THEN [call EXCEPT !.pc = "done"]
  ELSE [call EXCEPT !.pc = "done",
                    !.drained = DeferredDrain(BodyLen(call.resp.Body) - call.read),
                    !.closes = @ + 1]

\* the deferred function of export
afterDeferred(call) ==
  [call EXCEPT !.pc = "done",
               !.drained = DeferredDrain(BodyLen(call.resp.Body) - call.read),
               !.closes = @ + 1]

(***************************************************************************)
(* The actions.  Each draws its inputs after its guard.                    *)
(***************************************************************************)
\* start: ToClient succeeds (ok) or fails, with what the host offers
start ==
  /\ \E ok \in BOOLEAN : e' = IF ok THEN [e EXCEPT !.client = "ready"] ELSE e
  /\ UNCHANGED calls

pushTraces(c) ==
  /\ calls[c].pc = "idle"
  /\ \E td \in Batches("traces") :
       calls' = [calls EXCEPT ![c] = push(@, e.tracesURL, td)]
  /\ UNCHANGED e

pushMetrics(c) ==
  /\ calls[c].pc = "idle"
  /\ \E md \in Batches("metrics") :
       calls' = [calls EXCEPT ![c] = push(@, e.metricsURL, md)]
  /\ UNCHANGED e

pushLogs(c) ==
  /\ calls[c].pc = "idle"
  /\ \E ld \in Batches("logs") :
       calls' = [calls EXCEPT ![c] = push(@, e.logsURL, ld)]
  /\ UNCHANGED e

\* client.Do returns an error and no response, and export returns
exportDoError(c) ==
  /\ calls[c].pc = "inflight"
  /\ \E err \in TransportErrors :
       calls' = [calls EXCEPT ![c] =
                   Returned([@ EXCEPT !.doErr = err], TransportFailure(err))]
  /\ UNCHANGED e

\* client.Do returns a response
exportDoResponse(c) ==
  /\ calls[c].pc = "inflight"
  /\ \E resp \in Responses :
       calls' = [calls EXCEPT ![c] = [@ EXCEPT !.pc = "responded", !.resp = resp]]
  /\ UNCHANGED e

exportClassify(c) ==
  /\ calls[c].pc = "responded"
  /\ calls' = [calls EXCEPT ![c] = afterResponse(@)]
  /\ UNCHANGED e

exportDeferred(c) ==
  /\ calls[c].pc = "returning"
  /\ calls' = [calls EXCEPT ![c] = afterDeferred(@)]
  /\ UNCHANGED e

\* the caller takes the result; the call's locals are gone
Return(c) ==
  /\ calls[c].pc = "done"
  /\ calls' = [calls EXCEPT ![c] = IdleCall]
  /\ UNCHANGED e

Next ==
  \/ start
  \/ \E c \in DOMAIN calls : pushTraces(c)
  \/ \E c \in DOMAIN calls : pushMetrics(c)
  \/ \E c \in DOMAIN calls : pushLogs(c)
  \/ \E c \in DOMAIN calls : exportDoError(c)
  \/ \E c \in DOMAIN calls : exportDoResponse(c)
  \/ \E c \in DOMAIN calls : exportClassify(c)
  \/ \E c \in DOMAIN calls : exportDeferred(c)
  \/ \E c \in DOMAIN calls : Return(c)

Spec == Init /\ [][Next]_vars

(***************************************************************************)
(* Concurrent pushes: two calls in progress at once on a started exporter, *)
(* their steps interleaved in every order.                                 *)
(***************************************************************************)
\* the responses the concurrent calls are answered with
ConcResponses ==
  { [got |-> TRUE, StatusCode |-> code, Header |-> h,
     ContentLength |-> BodyLen(b), Body |-> b] :
       code \in {200, 400, 429, 500},
       h \in {<<>>, <<<<"5">>>>},
       b \in {<<>>, <<Field("message", 12, "overloaded")>>} }

InitConc ==
  /\ e \in {[x EXCEPT !.client = "ready"] : x \in Exporters}
  /\ calls = <<IdleCall, IdleCall>>

\* client.Do returns a response, one of ConcResponses
exportDoResponseConc(c) ==
  /\ calls[c].pc = "inflight"
  /\ \E resp \in ConcResponses :
       calls' = [calls EXCEPT ![c] = [@ EXCEPT !.pc = "responded", !.resp = resp]]
  /\ UNCHANGED e

NextConc ==
  \/ \E c \in DOMAIN calls : pushTraces(c)
  \/ \E c \in DOMAIN calls : pushMetrics(c)
  \/ \E c \in DOMAIN calls : pushLogs(c)
  \/ \E c \in DOMAIN calls : exportDoError(c)
  \/ \E c \in DOMAIN calls : exportDoResponseConc(c)
  \/ \E c \in DOMAIN calls : exportClassify(c)
  \/ \E c \in DOMAIN calls : exportDeferred(c)
  \/ \E c \in DOMAIN calls : Return(c)

SpecConc == InitConc /\ [][NextConc]_vars

(***************************************************************************)
(* Properties.                                                             *)
(***************************************************************************)
\* the call has returned, and client.Do had given it a response
Answered(call) == call.pc = "done" /\ call.resp.got

Contains(msg, fragment) == \E i \in 1..Len(msg) : msg[i] = fragment

\* the text of the error, without a decoded status
PlainText(call) ==
  <<"error exporting items, request to ", call.req.url,
    " responded with HTTP Status Code ", ToString(call.resp.StatusCode)>>

\* C1: a response with status code 400 makes export return a PermanentFailure,
\* whatever its body and headers are
C1_BadRequestIsPermanent ==
  \A c \in DOMAIN calls :
    (Answered(calls[c]) /\ calls[c].resp.StatusCode = 400)
      => Outcome(calls[c].ret).variant = "PermanentFailure"

C1_Witness ==
  \E c \in DOMAIN calls :
    /\ Answered(calls[c])
    /\ calls[c].resp.StatusCode = 400
    /\ calls[c].resp.Header = <<<<"5">>>>
    /\ calls[c].respStatus.present
    /\ Outcome(calls[c].ret).variant = "PermanentFailure"

\* C2: a response with a status code outside 200..299 that is none of 400, 429
\* and 503 makes export return a RetryableFailure, whatever its headers are
C2_OtherCodesAreRetryable ==
  \A c \in DOMAIN calls :
    (/\ Answered(calls[c])
     /\ calls[c].resp.StatusCode < 200 \/ calls[c].resp.StatusCode > 299
     /\ calls[c].resp.StatusCode \notin {400, 429, 503})
      => Outcome(calls[c].ret).variant = "RetryableFailure"

C2_Witness ==
  \E c \in DOMAIN calls :
    /\ Answered(calls[c])
    /\ calls[c].resp.StatusCode = 404
    /\ calls[c].resp.Header = <<<<"1", "2", "0">>>>
    /\ Outcome(calls[c].ret).variant = "RetryableFailure"

\* a decimal integer as a text: an optional sign and one or more digits
IsIntegerText(s) ==
  LET body == IF s # <<>> /\ s[1] \in {"+", "-"} THEN Tail(s) ELSE s
  IN  body # <<>> /\ \A i \in 1..Len(body) : IsDigit(body[i])

\* n seconds as a duration in nanoseconds, n being the integer the text s is
SecondsOfText(s) ==
  LET signed == s[1] \in {"+", "-"}
      n      == FromDigits(IF signed THEN Tail(s) ELSE s, <<>>)
  IN  MkInt(s[1] = "-", MulLimbs(n, TimeSecond.mag))

\* the duration C3 states for each header
StatedDelayOf ==
  [h \in Headers |->
     IF IsIntegerText(HeaderGet(h)) THEN SecondsOfText(HeaderGet(h)) ELSE Zero]

\* C3: a response with status code 429 or 503 makes export return a
\* ThrottledFailure whose duration is n seconds when the Retry-After header is
\* the integer n, and 0 when the header is absent, empty or not an integer
C3_ThrottleDelayIsHeaderSeconds ==
  \A c \in DOMAIN calls :
    (Answered(calls[c]) /\ calls[c].resp.StatusCode \in {429, 503})
      => /\ Outcome(calls[c].ret).variant = "ThrottledFailure"
         /\ Outcome(calls[c].ret).delay = StatedDelayOf[calls[c].resp.Header]

\* C4: a response with a status code in 200..299 makes export return nil, and
\* its body is not decoded as a status
C4_SuccessRange ==
  \A c \in DOMAIN calls :
    (/\ Answered(calls[c])
     /\ calls[c].resp.StatusCode >= 200
     /\ calls[c].resp.StatusCode <= 299)
      => /\ calls[c].ret = NilError
         /\ Outcome(calls[c].ret).variant = "Success"
         /\ ~calls[c].decoded
         /\ calls[c].read = 0
         /\ ~calls[c].respStatus.present

C4_Witness ==
  \E c \in DOMAIN calls :
    /\ Answered(calls[c])
    /\ calls[c].resp.StatusCode = 299
    /\ calls[c].resp.Body = <<Field("message", 12, "overloaded")>>
    /\ calls[c].resp.Header = <<<<"5">>>>
    /\ calls[c].ret = NilError

\* C5: when client.Do returns an error and no response, the push returns at once
\* a RetryableFailure: an error that is not permanent and carries no throttle
\* duration
C5_TransportErrorIsRetryable ==
  \A c \in DOMAIN calls :
    calls[c].doErr # NilError
      => /\ calls[c].pc = "done"
         /\ Outcome(calls[c].ret).variant = "RetryableFailure"
         /\ ~ErrorsAs(calls[c].ret, "permanent")
         /\ ~ErrorsAs(calls[c].ret, "throttleRetry")

C5_Witness ==
  \E c \in DOMAIN calls :
    /\ calls[c].pc = "done"
    /\ calls[c].doErr = [type |-> "transport", reason |-> "context canceled"]
    /\ calls[c].sent = 1
    /\ Outcome(calls[c].ret).variant = "RetryableFailure"

\* C6: when MarshalProto fails, the push returns a PermanentFailure and hands no
\* request to the client
C6_MarshalErrorIsPermanent ==
  \A c \in DOMAIN calls :
    (calls[c].pc # "idle" /\ ~calls[c].batch.encodable)
      => /\ calls[c].pc = "done"
         /\ Outcome(calls[c].ret).variant = "PermanentFailure"
         /\ calls[c].sent = 0
         /\ ~calls[c].req.made

C6_Witness ==
  \E c \in DOMAIN calls :
    /\ calls[c].pc = "done"
    /\ ~calls[c].batch.encodable
    /\ calls[c].batch.signal = "logs"
    /\ e.client = "ready"
    /\ Outcome(calls[c].ret).variant = "PermanentFailure"

\* C7 as stated: readResponse and the deferred discard together take at most
\* 64 KiB from the body
C7_TotalWithinCap ==
  \A c \in DOMAIN calls : calls[c].read + calls[c].drained <= 64 * 1024

\* C7 as amended: readResponse takes at most 64 KiB and the deferred discard at
\* most 64 KiB more; together they stay within 64 KiB when the status code is
\* outside 400..599, where readResponse reads nothing
C7_EachWithinCap ==
  \A c \in DOMAIN calls :
    /\ calls[c].read <= 64 * 1024
    /\ calls[c].drained <= 64 * 1024
    /\ (calls[c].resp.StatusCode < 400 \/ calls[c].resp.StatusCode > 599)
         => calls[c].read + calls[c].drained <= 64 * 1024

C7_Witness ==
  \E c \in DOMAIN calls :
    /\ Answered(calls[c])
    /\ calls[c].resp.ContentLength > 2 * 64 * 1024
    /\ calls[c].read = 64 * 1024
    /\ calls[c].drained = 64 * 1024

\* the body is a well-formed, non-empty encoding of a Status
WellFormed(body) == body # <<>> /\ ~Unmarshal(body, BodyLen(body), ZeroStatus).err

\* the Status the whole body encodes
StatusOf(body) == Unmarshal(body, BodyLen(body), ZeroStatus).st

\* C8: for a status code in 400..599 and a body that is a well-formed, non-empty
\* encoding of a Status, the message of the error holds the URL, the status code,
\* the decoded message and the decoded details, whether the response declares
\* the exact length of the body or no length
C8_MessageCarriesStatus ==
  \A c \in DOMAIN calls :
    (/\ Answered(calls[c])
     /\ calls[c].resp.StatusCode >= 400
     /\ calls[c].resp.StatusCode <= 599
     /\ WellFormed(calls[c].resp.Body)
     /\ calls[c].resp.ContentLength \in {-1, BodyLen(calls[c].resp.Body)})
      => LET text == ErrorText(calls[c].ret)
             st   == StatusOf(calls[c].resp.Body)
         IN  /\ Contains(text, calls[c].req.url)
             /\ Contains(text, ToString(calls[c].resp.StatusCode))
             /\ Contains(text, ", Message=")
             /\ Contains(text, st.Message)
             /\ Contains(text, ", Details=")
             /\ \A i \in 1..Len(st.Details) : Contains(text, st.Details[i])

\* the outcome the status code and the Retry-After header give, with no status
OutcomeOfCodeAndHeader(resp) == Outcome(ClassifyFailure(Errorf(<<>>), resp))

\* what C9 asks of a call: no status, the outcome of the status code and header
\* alone, and a message of the URL and the status code only
Degraded(call) ==
  /\ call.respStatus = NilStatus
  /\ Outcome(call.ret) = OutcomeOfCodeAndHeader(call.resp)
  /\ ErrorText(call.ret) = PlainText(call)

Asked(resp) ==
  Min(64 * 1024, IF resp.ContentLength = -1 THEN 64 * 1024 ELSE resp.ContentLength)

C10_BodyClosedOnce ==
  \A c \in DOMAIN calls :
    /\ calls[c].closes <= 1
    /\ Answered(calls[c]) => calls[c].closes = 1
    /\ ~calls[c].resp.got
         => calls[c].closes = 0 /\ calls[c].read = 0 /\ calls[c].drained = 0

C10_Witness ==
  \E c \in DOMAIN calls :
    /\ Answered(calls[c])
    /\ calls[c].resp.StatusCode = 200
    /\ calls[c].resp.ContentLength = -1
    /\ calls[c].resp.Body # <<>>
    /\ calls[c].closes = 1

\* C11: a push made while the exporter has no client (start has not completed
\* successfully) is rejected with an error: it hands no request to a client and
\* does not dereference the nil client
C11_PushBeforeStartRejected ==
  \A c \in DOMAIN calls :
    (calls[c].pc # "idle" /\ e.client = "nil")
      => /\ calls[c].pc = "done"
         /\ calls[c].ret # NilError
         /\ calls[c].sent = 0

\* C13: the duration of a ThrottledFailure is never negative, whatever the
\* Retry-After header of the 429 or 503 response is
C13_DelayNeverNegative ==
  \A c \in DOMAIN calls :
    (Answered(calls[c]) /\ calls[c].resp.StatusCode \in {429, 503})
      => /\ Outcome(calls[c].ret).variant = "ThrottledFailure"
         /\ ~Outcome(calls[c].ret).delay.neg

\* the destination of a signal kind
URLOf(signal) ==
  CASE signal = "traces" -> e.tracesURL
    [] signal = "metrics" -> e.metricsURL
    [] signal = "logs" -> e.logsURL

\* the outcome variant a call's own batch, own transport error and own response
\* give
OwnVariant(call) ==
  IF ~call.batch.encodable \/ URLOf(call.batch.signal) = MalformedURL
  THEN "PermanentFailure"
  ELSE IF ~call.resp.got THEN "RetryableFailure"
  ELSE IF call.resp.StatusCode >= 200 /\ call.resp.StatusCode <= 299 THEN "Success"
  ELSE IF call.resp.StatusCode \in {429, 503} THEN "ThrottledFailure"
  ELSE IF call.resp.StatusCode = 400 THEN "PermanentFailure"
  ELSE "RetryableFailure"

\* a call that has returned holds what its own inputs give: the request of its
\* own batch to its own destination, and the outcome, duration and message of
\* its own response
OwnResult(call) ==
  /\ Outcome(call.ret).variant = OwnVariant(call)
  /\ call.req.made
       => /\ call.req.url = URLOf(call.batch.signal)
          /\ call.req.body = MarshalProto(call.batch).bytes
  /\ call.doErr # NilError => Contains(ErrorText(call.ret), call.doErr.reason)
  /\ (call.resp.got /\ (call.resp.StatusCode < 200 \/ call.resp.StatusCode > 299))
       => /\ Contains(ErrorText(call.ret), URLOf(call.batch.signal))
          /\ Contains(ErrorText(call.ret), ToString(call.resp.StatusCode))
          /\ call.respStatus = readResponse(call.resp).respStatus
          /\ call.resp.StatusCode \in {429, 503}
               => Outcome(call.ret).delay = RetryDelayOf[call.resp.Header]

\* a step of a push leaves every exporter field as it was
ExporterUntouched == calls' # calls => e' = e

\* a step changes the locals of one call only
OneCallPerStep ==
  \A c, d \in DOMAIN calls :
    (c # d /\ calls'[c] # calls[c]) => calls'[d] = calls[d]

\* C12: concurrent pushes on a started exporter do not interfere under any
\* interleaving: no step of a push writes an exporter field or the locals of
\* another call, and what each call returns is given by its own batch and the
\* response (or transport error) to its own request
C12_NoInterference ==
  /\ [](\A c \in DOMAIN calls : calls[c].pc = "done" => OwnResult(calls[c]))
  /\ [][ExporterUntouched /\ OneCallPerStep]_vars

\* both calls have returned, with different signals, responses and outcomes
C12_Witness ==
  /\ Len(calls) = 2
  /\ Answered(calls[1]) /\ Answered(calls[2])
  /\ calls[1].batch.signal = "traces" /\ calls[2].batch.signal = "metrics"
  /\ calls[1].resp.StatusCode = 200 /\ calls[2].resp.StatusCode = 429
  /\ Outcome(calls[1].ret).variant = "Success"
  /\ Outcome(calls[2].ret).variant = "ThrottledFailure"
  /\ Contains(ErrorText(calls[2].ret), e.metricsURL)

====
